---- MODULE Spec2Model ----
(***************************************************************************)
(* Model of the media storage and semantic-search subsystem of the image   *)
(* management API: StorageService (app/services/storage.py), the image     *)
(* endpoints that call it (app/api/endpoints/images.py),                   *)
(* VectorSearchService (app/services/vector_search.py), the search         *)
(* endpoints (app/api/endpoints/search.py) and the team and user endpoints *)
(* (app/api/endpoints/teams.py, app/api/endpoints/users.py).               *)
(***************************************************************************)
EXTENDS Integers, Sequences, FiniteSets, TLC

VARIABLES
    teams,          \* rows of the teams table
    users,          \* rows of the users table
    use_gcs,        \* StorageService.use_gcs, fixed by __init__
    storage,        \* objects visible in the backend: set of [path, complete]
    nextUuid,       \* number of uuid4() values drawn so far (each draw is fresh)
    images,         \* rows of the images table
    flag,           \* settings.ENABLE_VECTOR_SEARCH
    enabled,        \* VectorSearchService.enabled
    vision_client,  \* VectorSearchService.vision_client is not None
    index,          \* vectors of the Pinecone namespace: set of [id, values, metadata]
    last            \* the last call and its outcome

vars == <<teams, users, use_gcs, storage, nextUuid, images, flag, enabled, vision_client, index, last>>

-----------------------------------------------------------------------------
(* Bounds of the model *)

MaxUploads == 2
MaxColors == 103
MaxLimit == 2

(* Program constants *)

MAX_UPLOAD_SIZE == 10485760
D == 512

Teams == {1, 2}
None == "None"

ALLOWED_IMAGE_EXTENSIONS == {"jpg", "jpeg", "png", "gif", "webp"}

\* init_db: the default team, its admin user and its regular user
SeedTeams == {[id |-> 1, name |-> "Default Team"]}
SeedUsers ==
    {[id |-> 1, email |-> "admin@example.com", is_active |-> TRUE,
      is_admin |-> TRUE, team_id |-> 1],
     [id |-> 2, email |-> "user@example.com", is_active |-> TRUE,
      is_admin |-> FALSE, team_id |-> 1]}

-----------------------------------------------------------------------------
(* Inputs: an uploaded file is its byte length, the format its leading     *)
(* bytes announce, whether PIL can decode it and to which dimensions, and  *)
(* what the embedding model and the Vision API see in it.                  *)

Sizes == {50000, MAX_UPLOAD_SIZE, MAX_UPLOAD_SIZE + 1}
Magics == {"none", "png", "bmp"}
Dims == {<<100, 80>>}

UploadFiles ==
    [size : Sizes, magic : Magics, decodable : BOOLEAN, dims : Dims]

\* imghdr.what(None, content): the sniffed format, None when no test matches
imghdr_what(file) ==
    IF file.magic \in {"png", "jpeg", "gif", "webp", "bmp", "tiff"}
    THEN file.magic ELSE None

TooLargeMsg == "File too large. Maximum size is 10.0 MB"
InvalidFormatMsg == "Invalid image format"
NotAllowedMsg == "Invalid image format. Allowed formats: jpg, jpeg, png, gif, webp"
DecodeErrorMsg == "Error processing image: cannot identify image file"

TooLargeAtLimit(size) == size >= MAX_UPLOAD_SIZE
\* size > settings.MAX_UPLOAD_SIZE
TooLarge(size) == size > MAX_UPLOAD_SIZE

ImageInfoSwapped(file) ==
    [width |-> file.dims[2], height |-> file.dims[1], size_bytes |-> file.size]
\* the properties validate_image decodes
ImageInfo(file) ==
    [width |-> file.dims[1], height |-> file.dims[2], size_bytes |-> file.size]

AllowedFormatAny(img_format) == TRUE
\* img_format in allowed_extensions
AllowedFormat(img_format) == img_format \in ALLOWED_IMAGE_EXTENSIONS

\* StorageService.validate_image: (is_valid, message, image_info)
validate_image(file) ==
    IF TooLarge(file.size)
    THEN [ok |-> FALSE, message |-> TooLargeMsg, info |-> None]
    ELSE IF imghdr_what(file) = None
    THEN [ok |-> FALSE, message |-> InvalidFormatMsg, info |-> None]
    ELSE IF ~AllowedFormat(imghdr_what(file))
    THEN [ok |-> FALSE, message |-> NotAllowedMsg, info |-> None]
    ELSE IF ~file.decodable
    THEN [ok |-> FALSE, message |-> DecodeErrorMsg, info |-> None]
    ELSE [ok |-> TRUE, message |-> "Valid image", info |-> ImageInfo(file)]

StoragePathOfTeam(team_id, unique_id) == <<"teams", team_id, "images", 1>>
\* storage_path = teams/{team_id}/images/{year_month}/{unique_id}_{timestamp}.{ext}
StoragePath(team_id, unique_id) == <<"teams", team_id, "images", unique_id>>

Paths == {StoragePath(t, u) : t \in Teams, u \in 1..MaxUploads}

StoredPaths == {o.path : o \in storage}

Exists(path) == path \in StoredPaths

\* Outcomes of the backend write: it completes, it fails before anything is
\* created (makedirs or open raises, the connection is refused), or it fails
\* part-way.
WriteFaults == {"none", "before", "partway"}

\* open(local_path, "wb") creates the file, f.write(content) fills it; nothing
\* removes the file when the write raises
WriteLocal(path, file, fault) ==
    CASE fault = "none" -> {[path |-> path, complete |-> TRUE]}
      [] fault = "before" -> {}
      [] fault = "partway" -> {[path |-> path, complete |-> FALSE]}

\* blob.upload_from_string: the object becomes visible only when the upload
\* completes
WriteGcs(path, file, fault) ==
    IF fault = "none"
    THEN {[path |-> path, complete |-> TRUE]}
    ELSE {}

\* StorageService.upload_file: the exception raised (None when it returns), the
\* returned metadata, and the backend afterwards
upload_file(file, team_id, fault) ==
    LET v == validate_image(file)
        path == StoragePath(team_id, nextUuid + 1)
        written == IF use_gcs THEN WriteGcs(path, file, fault)
                              ELSE WriteLocal(path, file, fault)
    IN  IF ~v.ok
        THEN [raised |-> "ValueError", message |-> v.message, result |-> None,
              path |-> None, storage |-> storage, uuids |-> nextUuid]
        ELSE IF fault # "none"
        THEN [raised |-> "ValueError",
              message |-> IF use_gcs THEN "Error uploading file to cloud storage"
                                     ELSE "Error saving file",
              result |-> None, path |-> path,
              storage |-> storage \cup written, uuids |-> nextUuid + 1]
        ELSE [raised |-> None, message |-> None,
              result |-> [storage_path |-> path,
                          size_bytes |-> v.info.size_bytes,
                          width |-> v.info.width,
                          height |-> v.info.height],
              path |-> path,
              storage |-> storage \cup written, uuids |-> nextUuid + 1]

\* the id the database gives a new row
NewImageId == IF images = {} THEN 1
              ELSE 1 + CHOOSE m \in {r.id : r \in images} :
                           \A r \in images : r.id <= m

\* StorageService.__init__, empty backend and database; the search feature is
\* off (the default of ENABLE_VECTOR_SEARCH)
InitStorage ==
    /\ use_gcs \in BOOLEAN
    /\ storage = {}
    /\ nextUuid = 0
    /\ images = {}
    /\ flag = FALSE /\ enabled = FALSE /\ vision_client = FALSE /\ index = {}
    /\ teams = SeedTeams /\ users = SeedUsers
    /\ last = [op |-> "init"]

\* VectorSearchService.__init__: disabled when the flag is off or when the
\* model or the index cannot be initialized; the Vision client is optional;
\* nothing is stored yet
InitSearch ==
    /\ flag \in BOOLEAN
    /\ enabled \in {e \in BOOLEAN : e => flag}
    /\ vision_client \in {v \in BOOLEAN : v => enabled}
    /\ index = {}
    /\ use_gcs = FALSE /\ storage = {} /\ nextUuid = 0 /\ images = {}
    /\ teams = SeedTeams /\ users = SeedUsers
    /\ last = [op |-> "init"]

UploadStatusNeedsSearch(raised) ==
    IF raised # None THEN 400
    ELSE IF flag /\ ~enabled THEN 500 ELSE 201
\* the status of POST /images/upload: 201 when upload_file returned, 400 for
\* its ValueError
UploadStatus(raised) == IF raised = None THEN 201 ELSE 400

\* A JSON column holds None or a value: <<>> is None, <<v>> is the value v
NoJson == <<>>

\* POST /images/upload, tags and metadata being the parsed form fields
upload_image(team_id, file, tags, metadata, fault) ==
    /\ upload_file(file, team_id, fault).uuids <= MaxUploads
    \* the backend is reached only by a file that passed validation
    /\ validate_image(file).ok \/ fault = "none"
    /\ LET u == upload_file(file, team_id, fault)
           row == [id |-> NewImageId,
                   storage_path |-> u.result.storage_path,
                   size_bytes |-> u.result.size_bytes,
                   width |-> u.result.width,
                   height |-> u.result.height,
                   team_id |-> team_id,
                   tags |-> tags,
                   image_metadata |-> metadata,
                   embedding_id |-> None,
                   embedding_model |-> None]
       IN  /\ storage' = u.storage
           /\ nextUuid' = u.uuids
           /\ images' = IF u.raised = None THEN images \cup {row} ELSE images
           /\ last' = [op |-> "upload", file |-> file, team_id |-> team_id,
                       fault |-> fault,
                       status |-> UploadStatus(u.raised),
                       raised |-> u.raised, message |-> u.message,
                       result |-> u.result, path |-> u.path,
                       row |-> IF u.raised = None THEN row ELSE None]
    /\ UNCHANGED <<teams, users, use_gcs, flag, enabled, vision_client, index>>

PlaceholderUrl == [base |-> "http://localhost:8000", route |-> "placeholder-image",
                   path |-> <<>>]

\* Outcomes of the backend call of generate_signed_url and delete_file: it
\* answers, or it raises (credentials, network, permissions).
BackendFaults == {"none", "raises"}

SignedUrlNoCatch(storage_path, fault) ==
    IF use_gcs
    THEN IF ~Exists(storage_path) \/ fault = "raises"
         THEN [raised |-> "Exception",
               url |-> [base |-> "", route |-> "", path |-> <<>>]]
         ELSE [raised |-> None,
               url |-> [base |-> "https://storage.googleapis.com", route |-> "signed",
                        path |-> storage_path]]
    ELSE [raised |-> None,
          url |-> [base |-> "http://localhost:8000", route |-> "storage",
                   path |-> storage_path]]
\* StorageService.generate_signed_url: every exception of the cloud branch is
\* caught and answered with the placeholder; the local branch formats the path
SignedUrl(storage_path, fault) ==
    IF use_gcs
    THEN IF ~Exists(storage_path) \/ fault = "raises"
         THEN [raised |-> None, url |-> PlaceholderUrl]
         ELSE [raised |-> None,
               url |-> [base |-> "https://storage.googleapis.com", route |-> "signed",
                        path |-> storage_path]]
    ELSE [raised |-> None,
          url |-> [base |-> "http://localhost:8000", route |-> "storage",
                   path |-> storage_path]]

generate_signed_url(storage_path, fault) ==
    \* signing is reached only on the cloud backend, for an existing object
    /\ (use_gcs /\ Exists(storage_path)) \/ fault = "none"
    /\ last' = [op |-> "url", path |-> storage_path, fault |-> fault,
                exists |-> Exists(storage_path),
                raised |-> SignedUrl(storage_path, fault).raised,
                url |-> SignedUrl(storage_path, fault).url]
    /\ UNCHANGED <<teams, users, use_gcs, storage, nextUuid, images, flag, enabled,
                   vision_client, index>>

DeleteResultRaisesIfAbsent(storage_path, fault) ==
    IF ~Exists(storage_path)
    THEN [returned |-> FALSE, raised |-> "NotFound", storage |-> storage]
    ELSE IF fault = "raises"
    THEN [returned |-> FALSE, raised |-> None, storage |-> storage]
    ELSE [returned |-> TRUE, raised |-> None,
          storage |-> {o \in storage : o.path # storage_path}]

DeleteResultAlwaysTrue(storage_path, fault) ==
    [returned |-> TRUE, raised |-> None,
     storage |-> IF fault = "none"
                 THEN {o \in storage : o.path # storage_path} ELSE storage]
\* StorageService.delete_file, both branches: False when nothing is at the
\* path, True after the removal, and False again when anything raised
DeleteResult(storage_path, fault) ==
    IF ~Exists(storage_path)
    THEN [returned |-> FALSE, raised |-> None, storage |-> storage]
    ELSE IF fault = "raises"
    THEN [returned |-> FALSE, raised |-> None, storage |-> storage]
    ELSE [returned |-> TRUE, raised |-> None,
          storage |-> {o \in storage : o.path # storage_path}]

delete_file(storage_path, fault) ==
    \* the removal is reached only for an existing object
    /\ Exists(storage_path) \/ fault = "none"
    /\ storage' = DeleteResult(storage_path, fault).storage
    /\ last' = [op |-> "delete", path |-> storage_path, fault |-> fault,
                existed |-> Exists(storage_path),
                returned |-> DeleteResult(storage_path, fault).returned,
                raised |-> DeleteResult(storage_path, fault).raised]
    /\ UNCHANGED <<teams, users, use_gcs, nextUuid, images, flag, enabled, vision_client, index>>

NextStorage ==
    \/ \E t \in Teams, f \in UploadFiles, w \in WriteFaults :
          upload_image(t, f, NoJson, NoJson, w)
    \/ \E p \in Paths, b \in BackendFaults : generate_signed_url(p, b)
    \/ \E p \in Paths, b \in BackendFaults : delete_file(p, b)

\* The storage service and the image endpoints, with the search feature off
\* (the default of ENABLE_VECTOR_SEARCH)
SpecStorage ==
    InitStorage /\ [][NextStorage]_vars


-----------------------------------------------------------------------------
(* The vector search service *)

\* str(image_id), str(team_id)
str(n) == ToString(n)

\* int(result["image_id"])
int(s) == CHOOSE n \in 0..(MaxUploads + 2) : str(n) = s

\* What the service finds at image_path: no file, or a file that PIL can or
\* cannot open, with the meaning the embedding model sees in it and the number
\* of dominant colours the Vision API reports for it.
Sems == {1, 2}
ColorCounts == {1, MaxColors}
NoFile == [exists |-> FALSE, decodable |-> FALSE, sem |-> 1, ncolors |-> 1]
ImageSources ==
    {NoFile} \cup
    [exists : {TRUE}, decodable : BOOLEAN, sem : Sems, ncolors : ColorCounts]

\* self.model.encode(x).tolist(): the vector of the CLIP model, D components
ClipVector(sem) == [i \in 1..D |-> IF i = sem THEN 1000 ELSE 0]

\* response.image_properties_annotation.dominant_colors.colors
DominantColors(n) ==
    [i \in 1..n |-> [red |-> (37 * i) % 256, green |-> (91 * i) % 256,
                     blue |-> (201 * i) % 256, score |-> 1000 \div (i + 1),
                     pixel_fraction |-> 1000 \div (i + 2)]]

\* the features list: five numbers per colour, in thousandths
Features(colors) ==
    [k \in 1..(5 * Len(colors)) |->
        LET c == colors[((k - 1) \div 5) + 1]
            j == (k - 1) % 5
        IN  CASE j = 0 -> (c.red * 1000) \div 255
              [] j = 1 -> (c.green * 1000) \div 255
              [] j = 2 -> (c.blue * 1000) \div 255
              [] j = 3 -> c.score
              [] j = 4 -> c.pixel_fraction]

PadOrTruncateNoPad(features) ==
    IF Len(features) > D THEN SubSeq(features, 1, D) ELSE features
\* "Pad or truncate to get 512 dimensions"
PadOrTruncate(features) ==
    IF Len(features) > D
    THEN SubSeq(features, 1, D)
    ELSE features \o [i \in 1..(D - Len(features)) |-> 0]

\* the vector of the primary path for each meaning, and the vector of the
\* fallback path for each number of dominant colours
ClipVectors == [x \in Sems |-> ClipVector(x)]
FallbackVectors ==
    [n \in ColorCounts |-> PadOrTruncate(Features(DominantColors(n)))]

FallbackZerosOnFailure(src, visionFault) ==
    IF ~vision_client \/ ~src.exists \/ visionFault
    THEN [i \in 1..D |-> 0]
    ELSE FallbackVectors[src.ncolors]
\* VectorSearchService._fallback_vision_embedding: [] without a Vision client
\* or when reading the file or the API call raises
_fallback_vision_embedding(src, visionFault) ==
    IF ~vision_client \/ ~src.exists \/ visionFault
    THEN <<>>
    ELSE FallbackVectors[src.ncolors]

\* VectorSearchService.get_embedding_from_image_file: [] when disabled or when
\* the file is missing; the fallback when opening or encoding the image raises
get_embedding_from_image_file(src, encodeFault, visionFault) ==
    IF ~enabled THEN <<>>
    ELSE IF ~src.exists THEN <<>>
    ELSE IF ~src.decodable \/ encodeFault
    THEN _fallback_vision_embedding(src, visionFault)
    ELSE ClipVectors[src.sem]

\* which path produced the vector of get_embedding_from_image_file
MethodUsed(src, encodeFault, visionFault) ==
    IF get_embedding_from_image_file(src, encodeFault, visionFault) = <<>>
    THEN "none"
    ELSE IF ~src.decodable \/ encodeFault THEN "fallback" ELSE "primary"

UpsertAppend(id, embedding, metadata) ==
    index \cup {[id |-> id, values |-> embedding, metadata |-> metadata]}
\* self.index.upsert(vectors=[(image_id, embedding, metadata)]): the entry of
\* that id is replaced
Upsert(id, embedding, metadata) ==
    {e \in index : e.id # id} \cup
    {[id |-> id, values |-> embedding, metadata |-> metadata]}

\* VectorSearchService.store_embedding: the value returned and the index
\* afterwards
store_embedding(id, embedding, metadata, upsertFault) ==
    IF ~enabled \/ embedding = <<>>
    THEN [returned |-> FALSE, index |-> index]
    ELSE IF upsertFault
    THEN [returned |-> FALSE, index |-> index]
    ELSE [returned |-> TRUE, index |-> Upsert(id, embedding, metadata)]

ImageIds == {1, 2}

\* VectorSearchService.process_image_upload
process_image_upload(src, image_id, team_id, encodeFault, visionFault, upsertFault) ==
    LET embedding == get_embedding_from_image_file(src, encodeFault, visionFault)
        vector_metadata == [image_id |-> str(image_id), team_id |-> str(team_id)]
        stored == store_embedding(str(image_id), embedding, vector_metadata,
                                  upsertFault)
        \* the call as the claims see it: what was asked, and which of the two
        \* paths failed to give a vector
        call == [op |-> "process", image_id |-> image_id, team_id |-> team_id,
                 file_exists |-> src.exists,
                 primary_failed |-> (~src.exists \/ ~src.decodable \/ encodeFault),
                 fallback_failed |-> (~src.exists \/ ~vision_client \/ visionFault),
                 \* _fallback_vision_embedding is called only from the except
                 \* clause around opening and encoding an existing file
                 fallback_attempted |->
                     (enabled /\ src.exists /\ (~src.decodable \/ encodeFault)),
                 raw_features |-> IF MethodUsed(src, encodeFault, visionFault) = "fallback"
                                  THEN 5 * src.ncolors ELSE 0,
                 raised |-> None, embedding_len |-> Len(embedding),
                 method |-> MethodUsed(src, encodeFault, visionFault)]
    IN  \* a fault is drawn only for a call that is made
        /\ encodeFault => (enabled /\ src.exists /\ src.decodable)
        /\ visionFault =>
             (enabled /\ src.exists /\ vision_client /\ (~src.decodable \/ encodeFault))
        /\ upsertFault => embedding # <<>>
        \* the answer of the model and of the Vision API is drawn only when
        \* it is used
        /\ MethodUsed(src, encodeFault, visionFault) # "primary" => src.sem = 1
        /\ MethodUsed(src, encodeFault, visionFault) # "fallback" => src.ncolors = 1
        /\ IF ~enabled
           THEN /\ index' = index
                /\ last' = call @@ [success |-> FALSE, embedding_id |-> None,
                                    embedding_model |-> None,
                                    reason |-> "Vector search disabled"]
           ELSE IF embedding = <<>>
           THEN /\ index' = index
                /\ last' = call @@ [success |-> FALSE, embedding_id |-> None,
                                    embedding_model |-> None,
                                    reason |-> "Failed to generate embedding"]
           ELSE /\ index' = stored.index
                /\ last' = call @@ [success |-> stored.returned,
                                    embedding_id |-> IF stored.returned
                                                     THEN str(image_id) ELSE None,
                                    embedding_model |-> "clip-ViT-B-32",
                                    reason |-> None]
        /\ UNCHANGED <<teams, users, use_gcs, storage, nextUuid, images, flag, enabled,
                       vision_client>>

\* The score Pinecone gives a stored vector for a query vector (cosine
\* metric), in hundredths: 100 for the vector itself, 60 for a vector that
\* shares a positive component among the leading ones, 0 otherwise.
Score(q, v) ==
    IF q = v THEN 100
    ELSE IF \E i \in 1..3 : q[i] > 0 /\ v[i] > 0 THEN 60
    ELSE 0

\* the match Pinecone returns for an entry (include_metadata=True)
Match(q, e) == [id |-> e.id, score |-> Score(q, e.values), metadata |-> e.metadata]

\* entries in the order of the answer: descending score, then id
RECURSIVE Ranked(_, _)
Ranked(q, entries) ==
    IF entries = {} THEN <<>>
    ELSE LET best == CHOOSE e \in entries :
                        \A o \in entries :
                            \/ Score(q, e.values) > Score(q, o.values)
                            \/ /\ Score(q, e.values) = Score(q, o.values)
                               /\ int(e.id) <= int(o.id)
         IN  <<Match(q, best)>> \o Ranked(q, entries \ {best})

TakeAll(seq, n) == seq
\* the first n elements (top_k of the query, similar_images[:limit])
Take(seq, n) == SubSeq(seq, 1, IF Len(seq) < n THEN Len(seq) ELSE n)

QueryUnfiltered(vector, filter_team, top_k) ==
    Take(Ranked(vector, index), top_k)
\* self.index.query(vector=..., filter={"team_id": ...}, top_k=...): the top_k
\* best entries among those whose metadata matches the filter
Query(vector, filter_team, top_k) ==
    Take(Ranked(vector, {e \in index : e.metadata.team_id = filter_team}), top_k)

\* the result dictionaries the service builds from the matches
Results(matches) ==
    [k \in 1..Len(matches) |->
        [image_id |-> matches[k].id, score |-> matches[k].score,
         metadata |-> matches[k].metadata]]

\* the bytes of the reference image of an image query
QueryImages == [decodable : BOOLEAN, sem : Sems]

Limits == 1..MaxLimit
MinScores == {0, 50}

\* the status POST /search/semantic gives the answer of search_by_text: 501
\* when the flag is off, else 200 with the list the service returned
semantic_search_status == IF ~flag THEN 501 ELSE 200

SearchFrame == UNCHANGED <<teams, users, use_gcs, storage, nextUuid, images, flag, enabled,
                           vision_client, index>>

\* VectorSearchService.search_by_text
search_by_text(text, team_id, limit, min_score, encodeFault, queryFault) ==
    LET query_embedding == IF ~enabled \/ encodeFault THEN <<>> ELSE ClipVectors[text]
        AboveMin(m) == m.score >= min_score
        results == IF ~enabled \/ query_embedding = <<>> \/ queryFault
                   THEN <<>>
                   ELSE Results(SelectSeq(Query(query_embedding, str(team_id), limit),
                                       AboveMin))
    IN  /\ encodeFault => enabled
        /\ queryFault => (enabled /\ ~encodeFault)
        /\ (~enabled \/ encodeFault \/ queryFault) => text = 1
        /\ last' = [op |-> "search_by_text", team_id |-> team_id,
                    limit |-> limit, min_score |-> min_score,
                    encode_failed |-> encodeFault, query_failed |-> queryFault,
                    status |-> semantic_search_status,
                    raised |-> None, results |-> results]
        /\ SearchFrame

\* VectorSearchService.search_by_image
search_by_image(src, team_id, limit, encodeFault, queryFault) ==
    LET results == IF ~enabled \/ ~src.decodable \/ encodeFault \/ queryFault
                   THEN <<>>
                   ELSE Results(Query(ClipVectors[src.sem], str(team_id), limit))
    IN  /\ encodeFault => (enabled /\ src.decodable)
        /\ queryFault => (enabled /\ src.decodable /\ ~encodeFault)
        /\ (~enabled \/ ~src.decodable \/ encodeFault \/ queryFault) => src.sem = 1
        /\ last' = [op |-> "search_by_image", team_id |-> team_id,
                    limit |-> limit, decodable |-> src.decodable,
                    encode_failed |-> encodeFault, query_failed |-> queryFault,
                    method |-> IF enabled /\ src.decodable /\ ~encodeFault
                               THEN "primary" ELSE "none",
                    raised |-> None, results |-> results]
        /\ SearchFrame

\* self.index.fetch(ids=[image_id]): the entries of that id
Fetch(id) == {e \in index : e.id = id}

\* VectorSearchService.get_similar_images
get_similar_images(image_id, team_id, limit, queryFault) ==
    LET found == Fetch(str(image_id))
        reference_vector == (CHOOSE e \in found : TRUE).values
        NotReference(m) == m.id # str(image_id)
        results == IF ~enabled \/ found = {} \/ queryFault
                   THEN <<>>
                   ELSE Take(Results(SelectSeq(Query(reference_vector, str(team_id),
                                                  limit + 1),
                                            NotReference)),
                             limit)
    IN  /\ queryFault => enabled
        /\ last' = [op |-> "get_similar_images", image_id |-> image_id,
                    team_id |-> team_id, limit |-> limit,
                    found |-> found # {}, query_failed |-> queryFault,
                    raised |-> None, results |-> results]
        /\ SearchFrame

\* the vectors a caller hands to store_embedding: one of the primary model,
\* one of the fallback, or the empty list
VectorKeys ==
    {<<"clip", x>> : x \in Sems} \cup {<<"fallback", n>> : n \in ColorCounts}
    \cup {<<"empty", 0>>}

VectorOf(key) ==
    CASE key[1] = "clip" -> ClipVectors[key[2]]
      [] key[1] = "fallback" -> FallbackVectors[key[2]]
      [] OTHER -> <<>>

\* a call of VectorSearchService.store_embedding
store_embedding_step(image_id, key, team_id, upsertFault) ==
    LET metadata == [image_id |-> str(image_id), team_id |-> str(team_id)]
        stored == store_embedding(str(image_id), VectorOf(key), metadata,
                                  upsertFault)
    IN  /\ upsertFault => (enabled /\ key[1] # "empty")
        /\ index' = stored.index
        /\ last' = [op |-> "store_embedding", image_id |-> image_id,
                    team_id |-> team_id, key |-> key,
                    existed |-> Fetch(str(image_id)) # {},
                    returned |-> stored.returned, raised |-> None]
        /\ UNCHANGED <<teams, users, use_gcs, storage, nextUuid, images, flag, enabled,
                       vision_client>>

\* VectorSearchService.delete_embedding: False when disabled or when the
\* backend raises, True after index.delete, which removes the id if present
delete_embedding(image_id, deleteFault) ==
    /\ deleteFault => enabled
    /\ index' = IF enabled /\ ~deleteFault
                THEN {e \in index : e.id # str(image_id)}
                ELSE index
    /\ last' = [op |-> "delete_embedding", image_id |-> image_id,
                existed |-> Fetch(str(image_id)) # {},
                returned |-> (enabled /\ ~deleteFault), raised |-> None]
    /\ UNCHANGED <<teams, users, use_gcs, storage, nextUuid, images, flag, enabled,
                   vision_client>>

NextSearch ==
    \/ \E src \in ImageSources, i \in ImageIds, t \in Teams,
          ef \in BOOLEAN, vf \in BOOLEAN, uf \in BOOLEAN :
            process_image_upload(src, i, t, ef, vf, uf)
    \/ \E x \in Sems, t \in Teams, l \in Limits, m \in MinScores,
          ef \in BOOLEAN, qf \in BOOLEAN :
            search_by_text(x, t, l, m, ef, qf)
    \/ \E src \in QueryImages, t \in Teams, l \in Limits,
          ef \in BOOLEAN, qf \in BOOLEAN :
            search_by_image(src, t, l, ef, qf)
    \/ \E i \in ImageIds, t \in Teams, l \in Limits, qf \in BOOLEAN :
            get_similar_images(i, t, l, qf)

\* The vector search service over an empty backend
SpecSearch ==
    InitSearch /\ [][NextSearch]_vars

\* The writes of the index: vectors are stored and deleted by id
NextIndex ==
    \/ \E i \in ImageIds, k \in VectorKeys, t \in Teams, uf \in BOOLEAN :
            store_embedding_step(i, k, t, uf)
    \/ \E i \in ImageIds, df \in BOOLEAN : delete_embedding(i, df)

SpecIndex ==
    InitSearch /\ [][NextIndex]_vars

\* An enabled service with a Vision client, and an index of up to three
\* vectors: images are processed without faults and queried by id
QueryIds == {1, 2, 3}
QuerySources == {s \in ImageSources : s.exists /\ s.ncolors = 1}

InitQuery ==
    /\ flag = TRUE /\ enabled = TRUE /\ vision_client = TRUE
    /\ index = {}
    /\ use_gcs = FALSE /\ storage = {} /\ nextUuid = 0 /\ images = {}
    /\ teams = SeedTeams /\ users = SeedUsers
    /\ last = [op |-> "init"]

NextQuery ==
    \/ \E src \in QuerySources, i \in QueryIds, t \in Teams :
            process_image_upload(src, i, t, FALSE, FALSE, FALSE)
    \/ \E i \in QueryIds, t \in Teams, l \in Limits, qf \in BOOLEAN :
            get_similar_images(i, t, l, qf)

SpecQuery ==
    InitQuery /\ [][NextQuery]_vars

-----------------------------------------------------------------------------
(* The image endpoints together with the vector search service *)

\* the users that call the image endpoints: the team and the admin flag are
\* what the endpoints read of current_user
CurrentUsers == [team_id : Teams, is_admin : BOOLEAN]

team_access_anyone(image_team_id, user) == TRUE
\* team_access_required: the user's team is the image's team, or the user is
\* an admin
team_access_required(image_team_id, user) ==
    user.team_id = image_team_id \/ user.is_admin

\* DELETE /images/{image_id}: 404 without a row, 403 for a user without
\* access, else the object is deleted from storage, whatever delete_file
\* returns the row is deleted, and the answer is 204; an exception of the
\* deletion is answered with 500 and the row stays; the index is not touched
delete_image(image_id, current_user, fault) ==
    LET found == {r \in images : r.id = image_id}
        image == CHOOSE r \in found : TRUE
        d == DeleteResult(image.storage_path, fault)
    IN  IF found = {}
        THEN /\ fault = "none"
             /\ last' = [op |-> "delete_image", image_id |-> image_id,
                         current_user |-> current_user,
                         status |-> 404, deleted |-> FALSE, existed |-> FALSE]
             /\ UNCHANGED <<teams, users, use_gcs, storage, nextUuid, images, flag, enabled,
                            vision_client, index>>
        ELSE IF ~team_access_required(image.team_id, current_user)
        THEN /\ fault = "none"
             /\ last' = [op |-> "delete_image", image_id |-> image_id,
                         current_user |-> current_user,
                         status |-> 403, deleted |-> FALSE,
                         existed |-> Exists(image.storage_path)]
             /\ UNCHANGED <<teams, users, use_gcs, storage, nextUuid, images, flag, enabled,
                            vision_client, index>>
        ELSE /\ Exists(image.storage_path) \/ fault = "none"
             /\ storage' = d.storage
             /\ images' = IF d.raised = None THEN images \ {image} ELSE images
             /\ last' = [op |-> "delete_image", image_id |-> image_id,
                         current_user |-> current_user,
                         status |-> IF d.raised = None THEN 204 ELSE 500,
                         deleted |-> d.returned,
                         existed |-> Exists(image.storage_path)]
             /\ UNCHANGED <<teams, users, use_gcs, nextUuid, flag, enabled, vision_client, index>>

\* the files of the uploads of the application: a valid image and a file
\* without an image signature
AppFiles == {f \in UploadFiles : f.size = 50000 /\ f.magic # "bmp" /\ f.decodable}

\* what process_image_upload finds at the path of the object of a row
AppSources(image) ==
    IF Exists(image.storage_path)
    THEN {s \in ImageSources : s.exists /\ s.decodable /\ s.sem = 1 /\ s.ncolors = 1}
    ELSE {NoFile}

\* both services start empty; the search service in any of its states
InitApp ==
    /\ use_gcs \in BOOLEAN
    /\ storage = {}
    /\ nextUuid = 0
    /\ images = {}
    /\ flag \in BOOLEAN
    /\ enabled \in {e \in BOOLEAN : e => flag}
    /\ vision_client \in {v \in BOOLEAN : v => enabled}
    /\ index = {}
    /\ teams = SeedTeams /\ users = SeedUsers
    /\ last = [op |-> "init"]

NextApp ==
    \/ \E t \in Teams, f \in AppFiles, w \in WriteFaults :
          upload_image(t, f, NoJson, NoJson, w)
    \/ \E r \in images, ef \in BOOLEAN, uf \in BOOLEAN :
          \E src \in AppSources(r) :
            process_image_upload(src, r.id, r.team_id, ef, FALSE, uf)
    \/ \E i \in ImageIds, u \in CurrentUsers, b \in BackendFaults :
          delete_image(i, u, b)

\* Uploads, embedding of uploaded images and deletions
SpecApp ==
    InitApp /\ [][NextApp]_vars

-----------------------------------------------------------------------------
(* The endpoint that embeds an uploaded image *)

GCS_BUCKET_NAME == "test-bucket"

\* the methods of class StorageService; download_file_temporarily is a
\* function of the module of the search endpoints, with a note to add it to
\* the class
StorageServiceMethods ==
    {"__init__", "validate_image", "upload_file", "generate_signed_url", "delete_file"}

\* the names process_image_embedding binds in its body, local to the whole
\* function: os is one of them by the import within the cloud branch
FunctionLocals == {"image", "temp_file", "result", "os", "e", "image_path"}

\* the local names that are bound when the local branch reaches os.path.join
BoundInLocalBranch == {"image"}

\* what the lines that locate the file raise before the service is called
LocateRaises ==
    IF GCS_BUCKET_NAME # "" /\ use_gcs
    THEN IF "download_file_temporarily" \notin StorageServiceMethods
         THEN "AttributeError" ELSE None
    ELSE IF "os" \in FunctionLocals \ BoundInLocalBranch
         THEN "UnboundLocalError" ELSE None

\* POST /search/process-image-embedding/{image_id}: 501 with the feature off,
\* 404 without a row, 403 for a user of another team who is not an admin;
\* then the file is located, process_image_upload is called on it, and on
\* success the row takes the embedding id and model; every failure is
\* answered with 500 and leaves the row as it was
process_image_embedding(image_id, current_user, src, encodeFault, upsertFault) ==
    LET found == {r \in images : r.id = image_id}
        image == CHOOSE r \in found : TRUE
        refused == IF ~flag THEN 501
                   ELSE IF found = {} THEN 404
                   ELSE IF image.team_id # current_user.team_id
                             /\ ~current_user.is_admin THEN 403
                   ELSE 0
        embedding == get_embedding_from_image_file(src, encodeFault, FALSE)
        stored == store_embedding(str(image_id), embedding,
                                  [image_id |-> str(image_id),
                                   team_id |-> str(image.team_id)],
                                  upsertFault)
        success == enabled /\ embedding # <<>> /\ stored.returned
        call == [op |-> "process_image_embedding", image_id |-> image_id,
                 current_user |-> current_user]
    IN  \* the file and the faults are drawn only when the service is called
        /\ (refused # 0 \/ LocateRaises # None) =>
              (src = NoFile /\ ~encodeFault /\ ~upsertFault)
        /\ IF refused # 0
           THEN /\ last' = call @@ [status |-> refused, raised |-> None]
                /\ UNCHANGED <<images, index>>
           ELSE IF LocateRaises # None
           THEN /\ last' = call @@ [status |-> 500, raised |-> LocateRaises]
                /\ UNCHANGED <<images, index>>
           ELSE /\ index' = stored.index
                /\ images' =
                     IF success
                     THEN (images \ {image}) \cup
                          {[image EXCEPT !.embedding_id = str(image_id),
                                         !.embedding_model = "clip-ViT-B-32"]}
                     ELSE images
                /\ last' = call @@ [status |-> IF success THEN 200 ELSE 500,
                                    raised |-> None]
        /\ UNCHANGED <<teams, users, use_gcs, storage, nextUuid, flag, enabled,
                       vision_client>>

NextEmbedding ==
    \/ \E t \in Teams, f \in AppFiles, w \in WriteFaults :
          upload_image(t, f, NoJson, NoJson, w)
    \/ \E i \in ImageIds, u \in CurrentUsers, ef \in BOOLEAN, uf \in BOOLEAN :
          \E src \in {NoFile} \cup UNION {AppSources(r) : r \in images} :
            process_image_embedding(i, u, src, ef, uf)

\* Uploads and requests to embed an uploaded image
SpecEmbedding ==
    InitApp /\ [][NextEmbedding]_vars

-----------------------------------------------------------------------------
(* The search endpoints *)

\* the list VectorSearchService.search_by_text returns
TextResults(text, team_id, limit, min_score, encodeFault, queryFault) ==
    LET query_embedding == IF ~enabled \/ encodeFault THEN <<>> ELSE ClipVectors[text]
        AboveMin(m) == m.score >= min_score
    IN  IF ~enabled \/ query_embedding = <<>> \/ queryFault
        THEN <<>>
        ELSE Results(SelectSeq(Query(query_embedding, str(team_id), limit), AboveMin))

\* the list VectorSearchService.search_by_image returns
ImageResults(src, team_id, limit, encodeFault, queryFault) ==
    IF ~enabled \/ ~src.decodable \/ encodeFault \/ queryFault
    THEN <<>>
    ELSE Results(Query(ClipVectors[src.sem], str(team_id), limit))

\* the list VectorSearchService.get_similar_images returns
SimilarResults(image_id, team_id, limit, queryFault) ==
    LET found == Fetch(str(image_id))
        reference_vector == (CHOOSE e \in found : TRUE).values
        NotReference(m) == m.id # str(image_id)
    IN  IF ~enabled \/ found = {} \/ queryFault
        THEN <<>>
        ELSE Take(Results(SelectSeq(Query(reference_vector, str(team_id), limit + 1),
                                    NotReference)),
                  limit)

\* db.query(Image).filter(Image.id.in_(image_ids)) and the loop over the
\* results: for every result whose id is the id of a row, that row and the
\* score, in the order of the results
Response(search_results) ==
    LET HasRow(result) == \E r \in images : str(r.id) = result.image_id
        kept == SelectSeq(search_results, HasRow)
    IN  [k \in 1..Len(kept) |->
            [image |-> CHOOSE r \in images : str(r.id) = kept[k].image_id,
             score |-> kept[k].score]]

\* POST /search/semantic
semantic_search(current_user, text, limit, min_score, encodeFault, queryFault) ==
    /\ encodeFault => (flag /\ enabled)
    /\ queryFault => (flag /\ enabled /\ ~encodeFault)
    /\ last' = [op |-> "semantic_search", current_user |-> current_user,
                status |-> IF ~flag THEN 501 ELSE 200,
                response |-> IF ~flag THEN <<>>
                             ELSE Response(TextResults(text, current_user.team_id,
                                                       limit, min_score,
                                                       encodeFault, queryFault))]
    /\ SearchFrame

\* POST /search/image-similarity
image_similarity_search(current_user, src, limit, encodeFault, queryFault) ==
    /\ encodeFault => (flag /\ enabled /\ src.decodable)
    /\ queryFault => (flag /\ enabled /\ src.decodable /\ ~encodeFault)
    /\ last' = [op |-> "image_similarity_search", current_user |-> current_user,
                status |-> IF ~flag THEN 501 ELSE 200,
                response |-> IF ~flag THEN <<>>
                             ELSE Response(ImageResults(src, current_user.team_id,
                                                        limit, encodeFault,
                                                        queryFault))]
    /\ SearchFrame

\* GET /search/similar/{image_id}: 404 without the row of the reference, 403
\* for a user of another team who is not an admin
find_similar_images(current_user, image_id, limit, queryFault) ==
    LET found == {r \in images : r.id = image_id}
        reference_image == CHOOSE r \in found : TRUE
        refused == IF ~flag THEN 501
                   ELSE IF found = {} THEN 404
                   ELSE IF reference_image.team_id # current_user.team_id
                             /\ ~current_user.is_admin THEN 403
                   ELSE 0
    IN  /\ queryFault => (refused = 0 /\ enabled)
        /\ last' = [op |-> "find_similar_images", current_user |-> current_user,
                    status |-> IF refused # 0 THEN refused ELSE 200,
                    response |-> IF refused # 0 THEN <<>>
                                 ELSE Response(SimilarResults(image_id,
                                                              current_user.team_id,
                                                              limit, queryFault))]
        /\ SearchFrame

\* the backend and the database start empty, the search service is available
InitEndpoints ==
    /\ use_gcs \in BOOLEAN
    /\ storage = {}
    /\ nextUuid = 0
    /\ images = {}
    /\ flag = TRUE /\ enabled = TRUE /\ vision_client = FALSE /\ index = {}
    /\ teams = SeedTeams /\ users = SeedUsers
    /\ last = [op |-> "init"]

NextEndpoints ==
    \/ \E t \in Teams, f \in AppFiles : upload_image(t, f, NoJson, NoJson, "none")
    \/ \E r \in images : \E src \in AppSources(r) :
          process_image_upload(src, r.id, r.team_id, FALSE, FALSE, FALSE)
    \/ \E i \in ImageIds, u \in CurrentUsers : delete_image(i, u, "none")
    \/ \E u \in CurrentUsers, l \in Limits, qf \in BOOLEAN :
          semantic_search(u, 1, l, 0, FALSE, qf)
    \/ \E u \in CurrentUsers, q \in QueryImages, l \in Limits :
          image_similarity_search(u, q, l, FALSE, FALSE)
    \/ \E u \in CurrentUsers, i \in ImageIds, l \in Limits :
          find_similar_images(u, i, l, FALSE)

\* Uploads, embedding of uploaded images, deletions and the three searches
SpecEndpoints ==
    InitEndpoints /\ [][NextEndpoints]_vars

-----------------------------------------------------------------------------
(* The image endpoints by id, the image list and the tag search *)

Tags == {"a", "b"}

\* the tag lists of the requests
TagLists == {<<>>, <<"a">>, <<"b">>, <<"a", "b">>}

\* the values of the tags column and of the image_metadata column
JsonTags == {NoJson} \cup {<<g>> : g \in TagLists}
Metas == {NoJson, <<"m">>}

\* the elements of a JSON array, separated
RECURSIVE Items(_)
Items(list) ==
    IF Len(list) <= 1 THEN list
    ELSE <<Head(list), ",">> \o Items(Tail(list))

\* json.dumps of the value of a column of type JSON, as the sequence of the
\* tokens of the text
JsonDumps(value) ==
    IF value = NoJson THEN <<"null">>
    ELSE <<"[">> \o Items(value[1]) \o <<"]">>

\* text LIKE '%' || pattern || '%'
Like(text, pattern) ==
    \E i \in 0..(Len(text) - Len(pattern)) :
        SubSeq(text, i + 1, i + Len(pattern)) = pattern

\* Image.tags.contains(other): tags is a Column(JSON), whose comparator has
\* the contains of every column, a LIKE of the serialized operand within the
\* serialized column
Contains(column, other) == Like(JsonDumps(column), JsonDumps(<<other>>))

\* query.filter(Image.tags.contains([tag])) for every tag of the request
RECURSIVE FilterTags(_, _)
FilterTags(rows, tags) ==
    IF tags = <<>> THEN rows
    ELSE FilterTags({r \in rows : Contains(r.tags, <<Head(tags)>>)}, Tail(tags))

ImagesFrame ==
    UNCHANGED <<teams, users, use_gcs, storage, nextUuid, images, flag, enabled,
                vision_client, index>>

\* GET /search/by-tag: the rows of the team of the user that pass the filter
\* of every tag
search_by_tags(current_user, tags) ==
    /\ tags # <<>>
    /\ last' = [op |-> "search_by_tags", current_user |-> current_user,
                tags |-> tags, status |-> 200,
                result |-> FilterTags({r \in images : r.team_id = current_user.team_id},
                                      tags)]
    /\ ImagesFrame

\* GET /images: the rows of the team of the user, filtered when tags are given
get_images(current_user, tags) ==
    /\ last' = [op |-> "get_images", current_user |-> current_user,
                tags |-> tags, status |-> 200,
                result |-> FilterTags({r \in images : r.team_id = current_user.team_id},
                                      tags)]
    /\ ImagesFrame

\* GET /images/{image_id}
get_image(image_id, current_user) ==
    LET found == {r \in images : r.id = image_id}
        image == CHOOSE r \in found : TRUE
    IN  /\ last' = [op |-> "get_image", image_id |-> image_id,
                    current_user |-> current_user,
                    status |-> IF found = {} THEN 404
                               ELSE IF ~team_access_required(image.team_id, current_user)
                               THEN 403 ELSE 200,
                    result |-> IF found # {} /\ team_access_required(image.team_id,
                                                                    current_user)
                               THEN found ELSE {}]
        /\ ImagesFrame

\* the bodies of PUT /images/{image_id}: each of the two fields is set or not
ImageUpdates ==
    {u \in [has_tags : BOOLEAN, tags : JsonTags,
            has_image_metadata : BOOLEAN, image_metadata : Metas] :
        /\ ~u.has_tags => u.tags = NoJson
        /\ ~u.has_image_metadata => u.image_metadata = NoJson}

\* PUT /images/{image_id}: the fields that are set in the body are written
update_image(image_id, image_in, current_user) ==
    LET found == {r \in images : r.id = image_id}
        image == CHOOSE r \in found : TRUE
        updated == [image EXCEPT
                      !.image_metadata = IF image_in.has_image_metadata
                                         THEN image_in.image_metadata ELSE @,
                      !.tags = IF image_in.has_tags THEN image_in.tags ELSE @]
        allowed == found # {} /\ team_access_required(image.team_id, current_user)
    IN  /\ images' = IF allowed THEN (images \ {image}) \cup {updated} ELSE images
        /\ last' = [op |-> "update_image", image_id |-> image_id,
                    current_user |-> current_user,
                    status |-> IF found = {} THEN 404
                               ELSE IF ~allowed THEN 403 ELSE 200,
                    result |-> IF allowed THEN {updated} ELSE {}]
        /\ UNCHANGED <<teams, users, use_gcs, storage, nextUuid, flag, enabled,
                       vision_client, index>>

\* the backend of either kind and the database start empty, the search
\* feature is off
InitImages ==
    /\ use_gcs \in BOOLEAN
    /\ storage = {}
    /\ nextUuid = 0
    /\ images = {}
    /\ flag = FALSE /\ enabled = FALSE /\ vision_client = FALSE /\ index = {}
    /\ teams = SeedTeams /\ users = SeedUsers
    /\ last = [op |-> "init"]

\* the bodies of the updates of the application: new tags, or new metadata
AppUpdates ==
    {u \in ImageUpdates :
        /\ u.has_tags # u.has_image_metadata
        /\ u.has_tags => u.tags = <<(<<"a">>)>>
        /\ u.has_image_metadata => u.image_metadata = <<"m">>}

NextImages ==
    \/ \E t \in Teams, f \in AppFiles :
          upload_image(t, f, NoJson, NoJson, "none")
    \/ \E i \in ImageIds, u \in CurrentUsers : get_image(i, u)
    \/ \E i \in ImageIds, b \in AppUpdates, u \in CurrentUsers : update_image(i, b, u)
    \/ \E i \in ImageIds, u \in CurrentUsers, b \in BackendFaults :
          delete_image(i, u, b)
    \/ \E r \in images : delete_file(r.storage_path, "none")

\* Uploads, reads, updates and deletions of images by id, and the loss of a
\* storage object
SpecImages ==
    InitImages /\ [][NextImages]_vars

NextTags ==
    \/ \E t \in Teams, f \in AppFiles, g \in JsonTags :
          upload_image(t, f, g, NoJson, "none")
    \/ \E u \in CurrentUsers, g \in TagLists : search_by_tags(u, g)
    \/ \E u \in CurrentUsers, g \in TagLists : get_images(u, g)

\* Uploads of tagged images and the tag filters
SpecTags ==
    InitImages /\ [][NextTags]_vars

-----------------------------------------------------------------------------
(* The team and user endpoints *)

MaxTeams == 2
MaxUsers == 3

TeamNames == {"Engineering"}
Emails == {"admin@example.com", "user@example.com", "new@example.com"}

\* get_current_user: the user of the API key, refused when inactive
Callers == {u \in users : u.is_active}

IsAdminAnyone(user) == TRUE
\* current_user.is_admin
IsAdmin(user) == user.is_admin

\* the id the database gives a new row of a table
NewRowId(rows) == IF rows = {} THEN 1
                  ELSE 1 + CHOOSE m \in {r.id : r \in rows} :
                               \A r \in rows : r.id <= m

UsersFrame == UNCHANGED <<use_gcs, storage, nextUuid, images, flag, enabled,
                          vision_client, index>>

\* POST /teams: admins only
create_team(caller, name) ==
    /\ Cardinality(teams) < MaxTeams
    /\ IF ~IsAdmin(caller)
       THEN /\ last' = [op |-> "create_team", caller |-> caller.id,
                        caller_admin |-> caller.is_admin, name |-> name,
                        status |-> 403, team |-> None]
            /\ UNCHANGED <<teams, users>>
       ELSE LET team == [id |-> NewRowId(teams), name |-> name]
            IN  /\ teams' = teams \cup {team}
                /\ last' = [op |-> "create_team", caller |-> caller.id,
                            caller_admin |-> caller.is_admin, name |-> name,
                            status |-> 201, team |-> team]
                /\ UNCHANGED users
    /\ UsersFrame

\* the bodies of POST /users (UserCreate) and PUT /users/{id} (UserUpdate: a
\* field is <<>> when it is not set and <<value>> when it is)
UserCreates == [email : Emails, is_admin : BOOLEAN, team_id : 1..MaxTeams]
UserUpdates == [email : {<<>>, <<"new@example.com">>},
                is_admin : {<<>>, <<TRUE>>, <<FALSE>>},
                team_id : {<<>>} \cup {<<i>> : i \in 1..MaxTeams}]

\* POST /users: 400 for a registered email, 403 for a non-admin creating a
\* user of another team, 404 for a missing team, else the user is added with
\* the fields of the body
create_user(caller, user_in) ==
    LET status == IF \E u \in users : u.email = user_in.email THEN 400
                  ELSE IF ~IsAdmin(caller) /\ user_in.team_id # caller.team_id
                  THEN 403
                  ELSE IF ~\E tm \in teams : tm.id = user_in.team_id THEN 404
                  ELSE 201
        user == [id |-> NewRowId(users), email |-> user_in.email,
                 is_active |-> TRUE, is_admin |-> user_in.is_admin,
                 team_id |-> user_in.team_id]
    IN  /\ Cardinality(users) < MaxUsers
        /\ users' = IF status = 201 THEN users \cup {user} ELSE users
        /\ last' = [op |-> "create_user", caller |-> caller.id,
                    caller_admin |-> caller.is_admin, target |-> user.id,
                    status |-> status]
        /\ UNCHANGED teams
        /\ UsersFrame

\* setattr(user, field, value) for the fields that are set
Updated(user, user_in) ==
    [user EXCEPT
        !.email = IF user_in.email = <<>> THEN @ ELSE user_in.email[1],
        !.is_admin = IF user_in.is_admin = <<>> THEN @ ELSE user_in.is_admin[1],
        !.team_id = IF user_in.team_id = <<>> THEN @ ELSE user_in.team_id[1]]

\* PUT /users/{user_id}: 404 for a missing user, 403 for a non-admin updating
\* another user or changing the team, 400 for an email that is taken, else
\* every field that is set is written
update_user(caller, user_id, user_in) ==
    LET found == {u \in users : u.id = user_id}
        user == CHOOSE u \in found : TRUE
        status == IF found = {} THEN 404
                  ELSE IF ~IsAdmin(caller) /\ caller.id # user_id THEN 403
                  ELSE IF /\ user_in.team_id # <<>>
                          /\ user_in.team_id[1] # user.team_id
                          /\ ~IsAdmin(caller)
                  THEN 403
                  ELSE IF /\ user_in.email # <<>>
                          /\ user_in.email[1] # user.email
                          /\ \E u \in users : u.email = user_in.email[1]
                  THEN 400
                  ELSE 200
    IN  /\ users' = IF status = 200
                    THEN (users \ {user}) \cup {Updated(user, user_in)}
                    ELSE users
        /\ last' = [op |-> "update_user", caller |-> caller.id,
                    caller_admin |-> caller.is_admin, target |-> user_id,
                    status |-> status]
        /\ UNCHANGED teams
        /\ UsersFrame

\* the database of init_db; storage and search are not used
InitUsers ==
    /\ use_gcs = FALSE /\ storage = {} /\ nextUuid = 0 /\ images = {}
    /\ flag = FALSE /\ enabled = FALSE /\ vision_client = FALSE /\ index = {}
    /\ teams = SeedTeams /\ users = SeedUsers
    /\ last = [op |-> "init"]

NextUsers ==
    \/ \E c \in Callers, n \in TeamNames : create_team(c, n)
    \/ \E c \in Callers, b \in UserCreates : create_user(c, b)
    \/ \E c \in Callers, i \in 1..MaxUsers, b \in UserUpdates : update_user(c, i, b)

SpecUsers ==
    InitUsers /\ [][NextUsers]_vars

-----------------------------------------------------------------------------
(* Claims about the storage service *)

FormatMessages == {InvalidFormatMsg, NotAllowedMsg}

\* the step is a call of upload_image
UploadStep == last'.op = "upload" /\ last' # last

\* C2: an upload of more than MAX_UPLOAD_SIZE bytes fails with the validation
\* error about the size and leaves the backend (and the table) as it was; a
\* file of exactly MAX_UPLOAD_SIZE bytes is not rejected for its size.
C2_OversizeRejected ==
    [][UploadStep =>
        /\ last'.file.size > MAX_UPLOAD_SIZE =>
              /\ last'.raised = "ValueError"
              /\ last'.message = TooLargeMsg
              /\ last'.status = 400
              /\ storage' = storage
              /\ images' = images
        /\ last'.file.size = MAX_UPLOAD_SIZE => last'.message # TooLargeMsg]_vars

\* C2 witness: an oversized upload was refused while the backend held an object
C2_Witness ==
    /\ last.op = "upload"
    /\ last.file.size > MAX_UPLOAD_SIZE
    /\ last.raised = "ValueError"
    /\ storage # {}

\* the sniffed format of the file is missing or outside the allow-list
BadFormat(file) ==
    file.magic \notin {"png", "jpeg", "gif", "webp", "jpg"}

\* C3 as stated: every upload whose content has no recognized signature, or a
\* format outside the allow-list, fails with a validation error citing the
\* format and writes nothing.
C3_Original ==
    [][UploadStep /\ BadFormat(last'.file) =>
        /\ last'.raised = "ValueError"
        /\ last'.message \in FormatMessages
        /\ storage' = storage]_vars

\* C3 amended: every upload of at most MAX_UPLOAD_SIZE bytes whose content has
\* no recognized signature, or a format outside the allow-list, fails with a
\* validation error citing the format and writes nothing; a larger one is
\* refused for its size and writes nothing either.
C3_FormatRejected ==
    [][UploadStep /\ BadFormat(last'.file) =>
        /\ last'.raised = "ValueError"
        /\ last'.status = 400
        /\ last'.message \in
              (IF last'.file.size > MAX_UPLOAD_SIZE THEN {TooLargeMsg}
               ELSE IF last'.file.magic = "none" THEN {InvalidFormatMsg}
               ELSE {NotAllowedMsg})
        /\ storage' = storage
        /\ images' = images]_vars

\* C3 witness: a recognized format outside the allow-list was refused for its
\* format while the backend held an object
C3_Witness ==
    /\ last.op = "upload"
    /\ last.file.magic = "bmp"
    /\ last.message = NotAllowedMsg
    /\ storage # {}

\* the file is a valid image of at most the maximum size in an allowed format
ValidFile(file) ==
    /\ file.size <= MAX_UPLOAD_SIZE
    /\ ~BadFormat(file)
    /\ file.decodable

\* C4: an upload of a valid image whose backend write completes succeeds,
\* adds exactly one object to the backend, at the returned path, and the
\* returned metadata and the row persisted from it carry the width, height and
\* byte size of the file.
C4_ValidUploadRoundTrip ==
    [][UploadStep /\ ValidFile(last'.file) /\ last'.fault = "none" =>
        /\ last'.raised = None
        /\ last'.status = 201
        /\ last'.result.storage_path \notin StoredPaths
        /\ storage' = storage \cup
              {[path |-> last'.result.storage_path, complete |-> TRUE]}
        /\ Cardinality(storage') = Cardinality(storage) + 1
        /\ last'.result.width = last'.file.dims[1]
        /\ last'.result.height = last'.file.dims[2]
        /\ last'.result.size_bytes = last'.file.size
        /\ last'.row \in images'
        /\ last'.row \notin images
        /\ last'.row.storage_path = last'.result.storage_path
        /\ last'.row.width = last'.file.dims[1]
        /\ last'.row.height = last'.file.dims[2]
        /\ last'.row.size_bytes = last'.file.size]_vars

\* C4 witness: a valid image of exactly the maximum size was stored as the
\* second object of the backend
C4_Witness ==
    /\ last.op = "upload"
    /\ last.status = 201
    /\ last.file.size = MAX_UPLOAD_SIZE
    /\ Cardinality(storage) = 2
    /\ \E r \in images : r.storage_path = last.result.storage_path

\* C5 as stated: after an upload whose backend write failed part-way, the
\* upload has failed and no object is visible at the computed path.
C5_NoPartialObject ==
    (last.op = "upload" /\ last.fault = "partway") =>
        /\ last.raised # None
        /\ last.path \notin StoredPaths

\* C6 as stated: generate_signed_url never raises, returns a non-empty URL,
\* and returns the placeholder whenever the object is missing or signing
\* fails, on either backend.
C6_Original ==
    last.op = "url" =>
        /\ last.raised = None
        /\ last.url.base # ""
        /\ (~last.exists \/ last.fault = "raises") => last.url = PlaceholderUrl

\* C6 amended: generate_signed_url never raises and returns a non-empty URL;
\* on the cloud backend it returns the placeholder when the object is missing
\* or signing fails; on the local backend it returns the direct URL of the
\* path whether or not an object exists there.
C6_UrlNeverRaises ==
    last.op = "url" =>
        /\ last.raised = None
        /\ last.url.base # ""
        /\ last.url.route # ""
        /\ (use_gcs /\ (~last.exists \/ last.fault = "raises")) =>
              last.url = PlaceholderUrl
        /\ (use_gcs /\ last.exists /\ last.fault = "none") =>
              (last.url.route = "signed" /\ last.url.path = last.path)
        /\ ~use_gcs =>
              (last.url.route = "storage" /\ last.url.path = last.path)

\* C6 witness: signing failed for an existing object of the cloud backend and
\* the placeholder was returned
C6_Witness ==
    /\ last.op = "url"
    /\ use_gcs
    /\ last.exists
    /\ last.fault = "raises"
    /\ last.url = PlaceholderUrl

\* C7: delete_file returns False, without raising and without touching the
\* backend, when nothing is at the path; when it returns True an object was at
\* the path and is gone; a removal the backend does not fail returns True; and
\* a delete that directly follows a delete of the same path that returned True
\* returns False.
C7_DeleteTrueThenFalse ==
    [][/\ (last'.op = "delete" /\ last' # last) =>
            /\ last'.raised = None
            /\ ~last'.existed => (~last'.returned /\ storage' = storage)
            /\ last'.returned =>
                  (last'.existed /\ last'.path \notin {o.path : o \in storage'})
            /\ (last'.existed /\ last'.fault = "none") => last'.returned
       /\ (/\ last.op = "delete" /\ last.returned
           /\ last'.op = "delete" /\ last'.path = last.path) =>
            ~last'.returned]_vars

\* C7 witness: a delete returned False for the path of an uploaded image whose
\* object an earlier delete has removed
C7_Witness ==
    /\ last.op = "delete"
    /\ ~last.existed
    /\ ~last.returned
    /\ \E r \in images : r.storage_path = last.path

\* C8 as stated: when the backend fails while removing an existing object,
\* delete_file fails with an error, an outcome other than the False it returns
\* for a missing object.
C8_DeleteFailureDistinct ==
    (last.op = "delete" /\ last.existed /\ last.fault = "raises") =>
        ~(last.returned = FALSE /\ last.raised = None)

-----------------------------------------------------------------------------
(* Claims about the vector search service *)

SearchOps == {"search_by_text", "search_by_image", "get_similar_images"}

\* C1: every match returned by search_by_text, search_by_image and
\* get_similar_images called for team T is an entry of the index whose stored
\* team_id metadata is str(T).
C1_TeamIsolation ==
    last.op \in SearchOps =>
        \A k \in 1..Len(last.results) :
            /\ last.results[k].metadata.team_id = str(last.team_id)
            /\ \E e \in index :
                 /\ e.id = last.results[k].image_id
                 /\ e.metadata = last.results[k].metadata
                 /\ e.metadata.team_id = str(last.team_id)

\* C1 witness: a text query returned a match while the index also held a
\* vector of another team
C1_Witness ==
    /\ last.op = "search_by_text"
    /\ Len(last.results) >= 1
    /\ \E e \in index : e.metadata.team_id # str(last.team_id)

\* C9: every vector of the index has exactly D components, and the vector the
\* fallback stored from fewer than D raw features ends in zeros.
C9_VectorLength ==
    /\ \A e \in index : Len(e.values) = D
    /\ (last.op = "process" /\ last.success /\ last.method = "fallback") =>
         \A e \in index :
            e.id = str(last.image_id) =>
               \A i \in 1..D : i > last.raw_features => e.values[i] = 0

\* C9 witness: the fallback stored a vector made from more than D raw
\* features beside a vector of the primary model
C9_Witness ==
    /\ last.op = "process"
    /\ last.success
    /\ last.method = "fallback"
    /\ last.raw_features > D
    /\ \E e \in index : e.id = str(last.image_id) /\ Len(e.values) = D
    /\ \E e \in index : e.values \in {ClipVectors[x] : x \in Sems}

\* C10: when neither the primary path nor the fallback gives a vector,
\* process_image_upload gets the empty list, returns success False without
\* raising, and leaves the index as it was.
C10_BothFailNoVector ==
    [][(last'.op = "process" /\ last'.primary_failed /\ last'.fallback_failed) =>
        /\ last'.embedding_len = 0
        /\ last'.method = "none"
        /\ last'.success = FALSE
        /\ last'.embedding_id = None
        /\ last'.raised = None
        /\ index' = index]_vars

\* C10 witness: with the service enabled and a Vision client, both paths
\* failed for an existing file while the index held a vector
C10_Witness ==
    /\ last.op = "process"
    /\ enabled /\ vision_client
    /\ last.file_exists
    /\ last.primary_failed /\ last.fallback_failed
    /\ ~last.success
    /\ index # {}

-----------------------------------------------------------------------------
(* Claims about the endpoints and the search service together *)

\* C11: an upload has the outcome its file and the backend write decide,
\* whatever the state of the search service and of the index: a valid image
\* whose write completes is answered 201, every other upload 400; a successful
\* upload leaves the object and the row in place for a read; and an upload
\* never touches the search service or the index.
C11_UploadIndependent ==
    [][UploadStep =>
        /\ (ValidFile(last'.file) /\ last'.fault = "none") => last'.status = 201
        /\ ~(ValidFile(last'.file) /\ last'.fault = "none") => last'.status = 400
        /\ last'.status = 201 =>
              /\ [path |-> last'.result.storage_path, complete |-> TRUE] \in storage'
              /\ last'.row \in images'
              /\ last'.row.storage_path = last'.result.storage_path
        /\ UNCHANGED <<flag, enabled, vision_client, index>>]_vars

\* C11 witness: an upload succeeded on a server whose search service is
\* switched on but disabled itself at start
C11_Witness ==
    /\ last.op = "upload"
    /\ last.status = 201
    /\ flag /\ ~enabled
    /\ last.row \in images

\* C18 as stated: the index holds no vector whose owning image is not in the
\* images table.
C18_NoOrphanVector ==
    \A e \in index : \E r \in images : str(r.id) = e.id

-----------------------------------------------------------------------------
(* Claims about the queries and the writes of the index *)

Min(a, b) == IF a < b THEN a ELSE b

\* the vectors of the team other than the reference
OthersOfTeam(team_id, image_id) ==
    {e \in index : e.metadata.team_id = str(team_id) /\ e.id # str(image_id)}

\* C12: for an id present in the index and a query the backend answers,
\* get_similar_images returns at most limit matches, no two for one id, none
\* with the reference id, all of the caller's team, and exactly min(k, limit)
\* of them when the caller's team holds k other vectors.
C12_SimilarById ==
    (last.op = "get_similar_images" /\ last.found /\ ~last.query_failed) =>
        /\ Len(last.results) <= last.limit
        /\ \A k \in 1..Len(last.results) :
              /\ last.results[k].image_id # str(last.image_id)
              /\ last.results[k].metadata.team_id = str(last.team_id)
              /\ \A j \in 1..(k - 1) :
                    last.results[j].image_id # last.results[k].image_id
        /\ Len(last.results) =
              Min(Cardinality(OthersOfTeam(last.team_id, last.image_id)), last.limit)

\* C12 witness: the reference and two other vectors belong to the caller's
\* team and a query with limit 1 returned one match
C12_Witness ==
    /\ last.op = "get_similar_images"
    /\ last.found /\ ~last.query_failed
    /\ last.limit = 1
    /\ Cardinality(OthersOfTeam(last.team_id, last.image_id)) = 2
    /\ \E e \in index : e.id = str(last.image_id)
                         /\ e.metadata.team_id = str(last.team_id)
    /\ Len(last.results) = 1

\* C13 as stated: a by-id query of an enabled service for an id without a
\* stored vector fails with an error.
C13_ReferenceNotFound ==
    (last.op = "get_similar_images" /\ enabled /\ ~last.found) =>
        last.raised # None

\* C14 as stated: a text query of a service that is not enabled fails with an
\* error, at the service or as a status other than 200 at the endpoint.
C14_SearchDisabledError ==
    (last.op = "search_by_text" /\ ~enabled) =>
        (last.raised # None \/ last.status # 200)

\* C15 as stated: a text query whose text gets no vector fails with an error
\* instead of the empty list of a search that matched nothing.
C15_EmptyQueryError ==
    (last.op = "search_by_text" /\ enabled /\ last.encode_failed) =>
        (last.raised # None \/ last.status # 200 \/ last.results # <<>>)

\* the minimum score in force: the min_score of a text query, the default of
\* 0.5 for an image query, in hundredths
MinScoreInForce ==
    IF last.op = "search_by_text" THEN last.min_score ELSE 50

\* C16 as stated: text queries and image queries return at most limit
\* matches, each with a score of at least the minimum score in force, in
\* descending order of score.
C16_ScoreLimitOrder ==
    last.op \in {"search_by_text", "search_by_image"} =>
        /\ Len(last.results) <= last.limit
        /\ \A k \in 1..Len(last.results) :
              /\ last.results[k].score >= MinScoreInForce
              /\ k > 1 => last.results[k - 1].score >= last.results[k].score

\* C17 as stated: an image query derives its vector by the path
\* get_embedding_from_image_file takes for the same bytes on processing:
\* the primary model, and the fallback when the primary fails.
C17_SameEmbeddingChain ==
    (last.op = "search_by_image" /\ enabled) =>
        last.method =
            IF MethodUsed([exists |-> TRUE, decodable |-> last.decodable,
                           sem |-> 1, ncolors |-> 1],
                          last.encode_failed, FALSE) = "none"
            THEN "none"
            ELSE IF last.decodable /\ ~last.encode_failed
            THEN "primary" ELSE "fallback"

\* C19: a store_embedding that returns True leaves exactly one entry for its
\* id, the one it was given, and every other entry as it was; when that entry
\* was already there, as after the same call, the index does not change.
C19_UpsertIdempotent ==
    [][(last'.op = "store_embedding" /\ last'.returned) =>
        LET entry == [id |-> str(last'.image_id),
                      values |-> VectorOf(last'.key),
                      metadata |-> [image_id |-> str(last'.image_id),
                                    team_id |-> str(last'.team_id)]]
        IN  /\ entry \in index'
            /\ \A e \in index' : e.id = entry.id => e = entry
            /\ {e \in index' : e.id # entry.id} = {e \in index : e.id # entry.id}
            /\ entry \in index => index' = index]_vars

\* C19 witness: a store_embedding overwrote the vector of its id beside the
\* vector of another id
C19_Witness ==
    /\ last.op = "store_embedding"
    /\ last.returned
    /\ last.existed
    /\ Cardinality(index) = 2
    /\ Cardinality({e.id : e \in index}) = 2

\* C20 as stated: delete_embedding of an id absent from the index, as in the
\* second of two deletes, returns False without raising and leaves the index
\* as it was.
C20_DeleteAbsentFalse ==
    (last.op = "delete_embedding" /\ ~last.existed) =>
        (~last.returned /\ last.raised = None)

-----------------------------------------------------------------------------
(* Claims about the embedding chain *)

\* C21 as stated: the result of processing names the method that made the
\* vector, so the model it names for a vector of the dominant-colour fallback
\* is not the name of the primary model.
C21_MethodTagged ==
    (last.op = "process" /\ last.success /\ last.method = "fallback") =>
        last.embedding_model # "clip-ViT-B-32"

\* C25 as stated: whenever the primary path of an enabled service gives no
\* vector for an image, the fallback is attempted before the empty result is
\* returned.
C25_FallbackAttempted ==
    (last.op = "process" /\ enabled /\ last.primary_failed) =>
        last.fallback_attempted

-----------------------------------------------------------------------------
(* Claims about storage paths *)

\* C26: the path of a successful upload lies under the prefix of the team it
\* was made for and is the path of no earlier successful upload and of no
\* object in the backend; the upload adds its object and leaves every other
\* object as it was.
C26_PathsUnique ==
    [][(UploadStep /\ last'.raised = None) =>
        /\ last'.result.storage_path[1] = "teams"
        /\ last'.result.storage_path[2] = last'.team_id
        /\ last'.result.storage_path \notin {r.storage_path : r \in images}
        /\ last'.result.storage_path \notin StoredPaths
        /\ storage \subseteq storage'
        /\ \A r1, r2 \in images' :
              r1.storage_path = r2.storage_path => r1 = r2]_vars

\* C26 witness: two uploads of one team succeeded, the second after the
\* object of the first was deleted from the backend
C26_Witness ==
    /\ last.op = "upload"
    /\ last.raised = None
    /\ \E r \in images :
          /\ r.team_id = last.team_id
          /\ r.storage_path # last.result.storage_path
          /\ ~Exists(r.storage_path)

-----------------------------------------------------------------------------
(* Claims about teams and users *)

\* C24: a create-team request of an admin is answered 201 and adds exactly
\* one team, with the given name; a create-team request of a non-admin is
\* answered 403 and leaves the teams as they were.
C24_CreateTeamAdminOnly ==
    [][last'.op = "create_team" =>
        IF last'.caller_admin
        THEN /\ last'.status = 201
             /\ last'.team.name = last'.name
             /\ last'.team \notin teams
             /\ teams' = teams \cup {last'.team}
        ELSE /\ last'.status = 403
             /\ teams' = teams]_vars

\* C24 witness: an admin created the team Engineering beside the default team
C24_Witness ==
    /\ last.op = "create_team"
    /\ last.status = 201
    /\ \E tm \in teams : tm.name = "Engineering" /\ tm.id = last.team.id
    /\ Cardinality(teams) = 2

Admins == {u.id : u \in {x \in users : x.is_admin}}

\* C29 as stated: a create_user or update_user request of a caller who is not
\* an admin leaves the set of admin users as it was.
C29_NoNewAdmin ==
    [][(last'.op \in {"create_user", "update_user"} /\ ~last'.caller_admin) =>
        Admins' = Admins]_vars

-----------------------------------------------------------------------------
(* Claims about the image endpoints *)

\* the row of the image a request names, before the request
RowOf(image_id) == {r \in images : r.id = image_id}

\* C30: get, update and delete of an image by id succeed only for a user of
\* the team of the image or an admin; any other user is answered 403, and the
\* rows (tags and metadata included) and the storage objects stay as they were
C30_TeamAccess ==
    [][(last'.op \in {"get_image", "update_image", "delete_image"}
          /\ RowOf(last'.image_id) # {}) =>
         \A image \in RowOf(last'.image_id) :
            IF image.team_id = last'.current_user.team_id
                 \/ last'.current_user.is_admin
            THEN last'.status # 403
            ELSE /\ last'.status = 403
                 /\ images' = images
                 /\ storage' = storage]_vars

\* a user of another team, not an admin, was refused
C30_Witness ==
    /\ last.op \in {"update_image", "delete_image"}
    /\ last.status = 403
    /\ ~last.current_user.is_admin
    /\ \E r \in images : r.id = last.image_id /\ r.team_id # last.current_user.team_id

\* C23: delete_image of an image whose storage object is gone answers 204 and
\* removes the row, leaving the storage as it was
C23_DeleteMissingObject ==
    [][(last'.op = "delete_image" /\ last'.status \notin {403, 404}
          /\ \E r \in RowOf(last'.image_id) : ~Exists(r.storage_path)) =>
         /\ last'.status = 204
         /\ ~last'.deleted
         /\ \A r \in images' : r.id # last'.image_id
         /\ storage' = storage]_vars

\* an image was deleted after its storage object had been lost
C23_Witness ==
    /\ last.op = "delete_image"
    /\ last.status = 204
    /\ ~last.existed
    /\ \A r \in images : r.id # last.image_id

\* the set of the tags of a row
TagSet(column) ==
    IF column = NoJson THEN {}
    ELSE {column[1][j] : j \in 1..Len(column[1])}

\* C22: the tag search and the tag filter of the image list return exactly
\* the images of the team of the caller whose tag set contains every tag of
\* the request
C22_TagContainment ==
    (last.op \in {"search_by_tags", "get_images"}) =>
        last.result = {r \in images :
                         /\ r.team_id = last.current_user.team_id
                         /\ \A i \in 1..Len(last.tags) : last.tags[i] \in TagSet(r.tags)}

-----------------------------------------------------------------------------
(* Claims about the endpoint that embeds an uploaded image *)

\* C27: for an existing image the caller may access, with the model and the
\* index available, process-image-embedding on either storage backend ends
\* with a vector stored under the id of the image, tagged with its team, and
\* with the embedding_id of the row equal to that id
C27_EndpointStoresVector ==
    (last.op = "process_image_embedding" /\ enabled) =>
        \A r \in images :
            (/\ r.id = last.image_id
             /\ Exists(r.storage_path)
             /\ (r.team_id = last.current_user.team_id
                   \/ last.current_user.is_admin)) =>
               /\ r.embedding_id = str(r.id)
               /\ \E e \in index : /\ e.id = str(r.id)
                                   /\ e.metadata.team_id = str(r.team_id)

-----------------------------------------------------------------------------
(* Claims about the search endpoints *)

\* C28: every image the semantic, image-similarity and similar-by-id search
\* endpoints return to a caller is a row of the team of the caller
C28_SearchOwnTeam ==
    (last.op \in {"semantic_search", "image_similarity_search",
                  "find_similar_images"}) =>
        \A k \in 1..Len(last.response) :
            last.response[k].image.team_id = last.current_user.team_id

=============================================================================
